---- MODULE Spec2Model ----
(***************************************************************************)
(* Model of genTracks.ipynb: the module globals loaded from the parsed     *)
(* TRIM files, sampleTrack (energy-windowed random selection of one track) *)
(* and getRotatedCoords (rotation of a track from (1,0,0) to (u,v,w)).     *)
(*                                                                         *)
(* Numbers.  Energies are integers in units of 0.5 keV.  Directions are    *)
(* the zero vector and the axis-aligned vectors with integer components,   *)
(* track coordinates are small integers: on these inputs every square      *)
(* root and division of getRotatedCoords is exact in floating point and    *)
(* every result fits float32, so integer arithmetic computes what the code *)
(* computes.  Array indices are 0-based as in the code; TLA+ sequences are *)
(* 1-based, so element i of an array a is a[i+1].                          *)
(***************************************************************************)
EXTENDS Integers, Sequences, FiniteSets, TLC

\* ---------------------------------------------------------------- bounds
MaxEnergy == 2     \* energy arguments range over 0..MaxEnergy
MaxWidth == 1      \* explicit energyWidth_keV arguments range over -1..MaxWidth
RngPeriod == 2     \* number of states of a random generator
MaxMag == 2        \* direction components range over -MaxMag..MaxMag
MaxTrackLen == 2   \* caller-made coordinate arrays have 0..MaxTrackLen points

\* ------------------------------------------------------ program constants
\* energyWidth_keV=2.5 (default argument), in units of 0.5 keV
energyWidth_keV_default == 5
\* sinThetaCutoff = 0.00000174532, in units of 1e-11
sinThetaCutoff == 174532

\* ------------------------------------------------------------- the data
\* One entry of a trimTree: the key column and the four heavy columns.
Entry(e, x, y, z, n) ==
  [energy_keV |-> e, xs_nm |-> x, ys_nm |-> y, zs_nm |-> z, nVacs |-> n]

\* What the files on disk may hold: the ion names the notebook lists and one
\* tree per name.  The energies are not sorted and may repeat; a track may
\* have no point.
Datasets ==
  { [names |-> <<"7Li">>,
     trees |-> << << Entry(0, <<1>>, <<0>>, <<0>>, <<2>>),
                     Entry(1, <<1, 0>>, <<0, 1>>, <<0, -1>>, <<0, 2>>),
                     Entry(3, <<0>>, <<1>>, <<-1>>, <<1>>) >> >>],
    [names |-> <<"1H", "7Li">>,
     trees |-> << << Entry(2, <<>>, <<>>, <<>>, <<>>),
                     Entry(2, <<1>>, <<1>>, <<0>>, <<2>>) >>,
                  << Entry(3, <<-1>>, <<0>>, <<1>>, <<0>>),
                     Entry(0, <<1>>, <<0>>, <<0>>, <<2>>) >> >>],
    [names |-> <<"7Li">>,
     trees |-> << << >> >>] }

\* The ion names a caller may ask for ("19F" is in no list above).
IonNames == {"1H", "7Li", "19F"}

\* tree["energy_keV"].array(library="np"): the whole key column of a tree
KeyColumn(tree) == [i \in 1..Len(tree) |-> tree[i].energy_keV]

\* tree.arrays([...], entry_start, entry_stop): the four heavy columns of
\* the entries entry_start <= i < entry_stop (clipped to the tree)
TreeArrays(tree, entry_start, entry_stop) ==
  LET lo == IF entry_start < 0 THEN 0 ELSE entry_start
      hi == IF entry_stop > Len(tree) THEN Len(tree) ELSE entry_stop
      part == SubSeq(tree, lo + 1, hi)
  IN [xs_nm |-> [i \in 1..Len(part) |-> part[i].xs_nm],
      ys_nm |-> [i \in 1..Len(part) |-> part[i].ys_nm],
      zs_nm |-> [i \in 1..Len(part) |-> part[i].zs_nm],
      nVacs |-> [i \in 1..Len(part) |-> part[i].nVacs]]

\* ------------------------------------------------------ random generators
RngStates == 0..(RngPeriod - 1)

\* rng.choice(a): the element the generator in state s draws from a
RngChoice(a, s) == a[(s % Len(a)) + 1]

\* the state of the generator after one draw
RngNext(s) == (s + 1) % RngPeriod

\* ------------------------------------------------------------ sampleTrack
\* the explicit widths a caller passes, and the default when it passes none
Widths == (-1..MaxWidth) \cup {energyWidth_keV_default}

\* Mutant of IonKnown: the membership check is skipped.
IonKnown_Always(ionName, names) == TRUE

\* ionName in recoilIonsNames
IonKnown(ionName, names) == \E i \in 1..Len(names) : names[i] = ionName

\* recoilIonsNames.index(ionName): the first position of ionName; list.index
\* raises ValueError when the name is absent, written -1 here
ListIndex(names, ionName) ==
  IF \E i \in 1..Len(names) : names[i] = ionName
  THEN CHOOSE i \in 0..(Len(names) - 1) :
         /\ names[i + 1] = ionName
         /\ \A j \in 0..(i - 1) : names[j + 1] # ionName
  ELSE -1

\* Mutant of InWindow: the lower bound of the window is dropped.
InWindow_UpperOnly(e, energy, energyWidth_keV) == e <= energy + energyWidth_keV

\* (e >= energy - energyWidth_keV) & (e <= energy + energyWidth_keV)
InWindow(e, energy, energyWidth_keV) ==
  e >= energy - energyWidth_keV /\ e <= energy + energyWidth_keV

\* Mutant of validEnergyIdxs: the width is taken in absolute value.
validEnergyIdxs_AbsWidth(column, energy, energyWidth_keV) ==
  SelectSeq([i \in 1..Len(column) |-> i - 1],
            LAMBDA i : InWindow(column[i + 1], energy,
                                IF energyWidth_keV < 0 THEN -energyWidth_keV
                                                       ELSE energyWidth_keV))

\* np.where(...)[0]: the indices, ascending, of the energies in the window
validEnergyIdxs(column, energy, energyWidth_keV) ==
  SelectSeq([i \in 1..Len(column) |-> i - 1],
            LAMBDA i : InWindow(column[i + 1], energy, energyWidth_keV))

\* Mutant of NoCandidates: the empty-selection check is skipped.
NoCandidates_Never(valid) == FALSE

\* len(validEnergyIdxs) == 0
NoCandidates(valid) == Len(valid) = 0

\* Mutant of ReadRange: the read starts at the first entry of the tree.
ReadRange_FromStart(randIdx) == [entry_start |-> 0, entry_stop |-> randIdx + 1]

\* entry_start=randIdx, entry_stop=randIdx+1
ReadRange(randIdx) == [entry_start |-> randIdx, entry_stop |-> randIdx + 1]

\* Mutant of UsedRng: the rng argument is ignored.
UsedRng_AlwaysDefault(rngGiven, given, default) == default

\* rng=np.random.default_rng(): the generator the body uses is the one the
\* caller passes, or else the one the default argument made when the
\* function was defined
UsedRng(rngGiven, given, default) == IF rngGiven THEN given ELSE default

\* return [],[],[],[]
EmptyTrack == << <<>>, <<>>, <<>>, <<>> >>

\* Mutant of ReadFailure: the error of the read is swallowed and the call
\* returns the empty result.
ReadFailure_Swallowed(read, valid, randIdx, rng) ==
  [outcome |-> "return", exc |-> "", value |-> EmptyTrack, printed |-> <<>>,
   reads |-> <<read>>, validEnergyIdxs |-> valid, randIdx |-> randIdx, rng |-> rng]

\* trees[ionIdx].arrays(...) raises: sampleTrack has no try, so the error
\* leaves the call at once, after the one read and the one draw
ReadFailure(read, valid, randIdx, rng) ==
  [outcome |-> "raise", exc |-> "StorageError", value |-> EmptyTrack,
   printed |-> <<>>, reads |-> <<read>>, validEnergyIdxs |-> valid,
   randIdx |-> randIdx, rng |-> rng]

\* The result of one call of sampleTrack: how it ends (outcome, exc), what
\* it returns, what it printed, the reads it made on the trees, the
\* candidates, the index it drew (-1: none) and the generator's state after.
SampleResult(outcome, exc, value, printed, reads, valid, randIdx, rng) ==
  [outcome |-> outcome, exc |-> exc, value |-> value, printed |-> printed,
   reads |-> reads, validEnergyIdxs |-> valid, randIdx |-> randIdx, rng |-> rng]

\* sampleTrack(energy, ionName, energyWidth_keV, rng) on the globals names,
\* trs, ens; rng is the state of the generator it is given, readOk tells
\* whether the backing file answers the read.
sampleTrack(energy, ionName, energyWidth_keV, rng, readOk, names, trs, ens) ==
  IF ~IonKnown(ionName, names)
  THEN SampleResult("return", "", EmptyTrack,
                    <<ionName, " not found in recoilIonNames!">>,
                    <<>>, <<>>, -1, rng)
  ELSE
  LET ionIdx == ListIndex(names, ionName) IN
  IF ionIdx = -1
  THEN SampleResult("raise", "ValueError", EmptyTrack, <<>>, <<>>, <<>>, -1, rng)
  ELSE
  LET valid == validEnergyIdxs(ens[ionIdx + 1], energy, energyWidth_keV) IN
  IF NoCandidates(valid)
  THEN SampleResult("return", "", EmptyTrack, <<>>, <<>>, valid, -1, rng)
  ELSE
  IF Len(valid) = 0   \* rng.choice of an empty array raises ValueError
  THEN SampleResult("raise", "ValueError", EmptyTrack, <<>>, <<>>, valid, -1, rng)
  ELSE
  LET randIdx == RngChoice(valid, rng)
      range == ReadRange(randIdx)
      read == [tree |-> ionIdx, entry_start |-> range.entry_start,
               entry_stop |-> range.entry_stop]
      track == TreeArrays(trs[ionIdx + 1], range.entry_start, range.entry_stop)
  IN
  IF ~readOk          \* the error of the backing file propagates
  THEN ReadFailure(read, valid, randIdx, RngNext(rng))
  ELSE
  IF Len(track.xs_nm) = 0   \* track["xs_nm"][0] of no entry raises IndexError
  THEN SampleResult("raise", "IndexError", EmptyTrack, <<>>, <<read>>,
                    valid, randIdx, RngNext(rng))
  ELSE SampleResult("return", "",
                    <<track.xs_nm[1], track.ys_nm[1], track.zs_nm[1], track.nVacs[1]>>,
                    <<>>, <<read>>, valid, randIdx, RngNext(rng))

\* ------------------------------------------------------- getRotatedCoords
\* np.sqrt on the perfect squares the inputs of this model produce
Sqrt(n) == CHOOSE r \in 0..n : r * r = n

\* a / b for b > 0 dividing a, the only divisions these inputs produce
Div(a, b) == a \div b

\* the smallest integer >= a / b, for b > 0
CeilDiv(a, b) == (a + b - 1) \div b

\* Mutant of BelowCutoff: the cutoff is zero, so no sinTheta is below it.
BelowCutoff_ZeroCutoff(sinTheta) == sinTheta < 0

\* sinTheta < sinThetaCutoff, for an integer sinTheta: the cutoff is
\* sinThetaCutoff * 1e-11, and an integer is below it exactly when it is
\* below the cutoff rounded up to an integer
BelowCutoff(sinTheta) ==
  sinTheta < CeilDiv(CeilDiv(sinThetaCutoff, 1000000), 100000)

\* the directions a caller passes: the zero vector and the axis-aligned ones
Directions ==
  { d \in (-MaxMag..MaxMag) \X (-MaxMag..MaxMag) \X (-MaxMag..MaxMag) :
      Cardinality({i \in 1..3 : d[i] # 0}) <= 1 }

\* what the memory of an array made by np.empty may hold
Uninitialized == {0, 9}

\* np.empty(n, dtype=np.float32): n elements of whatever the memory held
\* (one stale value per array stands for the contents it may have)
EmptyArrays(n) == {[i \in 1..n |-> g] : g \in Uninitialized}

\* the return of the mag == 0 branch
DegenerateReturn(xs_in, ys_in, zs_in, xs_out, ys_out, zs_out) ==
  <<xs_out, ys_out, zs_out>>

\* Mutant of AlignedReturn: the branch returns the output arrays, as the
\* mag == 0 branch does.
AlignedReturn_Outputs(xs_in, ys_in, zs_in, xs_out, ys_out, zs_out) ==
  <<xs_out, ys_out, zs_out>>

\* the return of the sinTheta < sinThetaCutoff branch
AlignedReturn(xs_in, ys_in, zs_in, xs_out, ys_out, zs_out) ==
  <<xs_in, ys_in, zs_in>>

\* the body of the loop for one point (vx, vy, vz)
RotatePoint(vx, vy, vz, cosTheta, sinTheta, kx, ky, kz) ==
  LET dot == vy * ky + vz * kz
      cross_x == 0
      cross_y == vz * kx - vx * kz
      cross_z == vx * ky - vy * kx
  IN << vx * cosTheta + cross_x * sinTheta + kx * dot * (1 - cosTheta),
        vy * cosTheta + cross_y * sinTheta + ky * dot * (1 - cosTheta),
        vz * cosTheta + cross_z * sinTheta + kz * dot * (1 - cosTheta) >>

\* Mutant of LoopPoint: every iteration reads the first point.
LoopPoint_First(xs_in, ys_in, zs_in, i) == <<xs_in[1], ys_in[1], zs_in[1]>>

\* the point the iteration i of the loop reads
LoopPoint(xs_in, ys_in, zs_in, i) == <<xs_in[i + 1], ys_in[i + 1], zs_in[i + 1]>>

\* for i in range(n): the iterations i, i+1, ..., n-1 on the output arrays
RECURSIVE RotLoop(_, _, _, _, _, _, _, _, _, _, _)
RotLoop(i, n, xs_in, ys_in, zs_in, out, cosTheta, sinTheta, kx, ky, kz) ==
  IF i >= n THEN out
  ELSE LET p == LoopPoint(xs_in, ys_in, zs_in, i)
           q == RotatePoint(p[1], p[2], p[3], cosTheta, sinTheta, kx, ky, kz)
       IN RotLoop(i + 1, n, xs_in, ys_in, zs_in,
                  << [out[1] EXCEPT ![i + 1] = q[1]],
                     [out[2] EXCEPT ![i + 1] = q[2]],
                     [out[3] EXCEPT ![i + 1] = q[3]] >>,
                  cosTheta, sinTheta, kx, ky, kz)

\* what a call raises when ky /= k_norm divides by zero (the function is
\* compiled with @njit, whose division raises as Python's does)
ZeroDivisionError == <<"ZeroDivisionError">>

\* The part of getRotatedCoords before the loop: the normalisation, the two
\* early returns, the rotation axis.  branch is the place the setup ends at:
\* "mag == 0", "sinTheta < sinThetaCutoff", "ZeroDivisionError" or "loop".
RotationSetup(u0, v0, w0) ==
  LET mag == Sqrt(u0 * u0 + v0 * v0 + w0 * w0)
      none == [branch |-> "mag == 0", cosTheta |-> 0, sinTheta |-> 0,
               k_norm |-> 0, kx |-> 0, ky |-> 0, kz |-> 0]
  IN
  IF mag = 0 THEN none
  ELSE
  LET u == Div(u0, mag)
      v == Div(v0, mag)
      w == Div(w0, mag)
      cosTheta == u
      sinTheta == Sqrt(1 - cosTheta * cosTheta)
  IN
  IF BelowCutoff(sinTheta)
  THEN [none EXCEPT !.branch = "sinTheta < sinThetaCutoff",
                    !.cosTheta = cosTheta, !.sinTheta = sinTheta]
  ELSE
  LET kx == 0
      ky == w
      kz == -v
      k_norm == Sqrt(ky * ky + kz * kz)
  IN
  IF k_norm = 0
  THEN [branch |-> "ZeroDivisionError", cosTheta |-> cosTheta,
        sinTheta |-> sinTheta, k_norm |-> k_norm, kx |-> kx, ky |-> ky, kz |-> kz]
  ELSE [branch |-> "loop", cosTheta |-> cosTheta, sinTheta |-> sinTheta,
        k_norm |-> k_norm, kx |-> kx,
        ky |-> Div(ky, k_norm), kz |-> Div(kz, k_norm)]

\* getRotatedCoords(u, v, w, xs, ys, zs); xs_out, ys_out, zs_out are the
\* arrays np.empty made
getRotatedCoords(u0, v0, w0, xs_in, ys_in, zs_in, xs_out, ys_out, zs_out) ==
  LET n == Len(xs_in)
      s == RotationSetup(u0, v0, w0)
  IN
  CASE s.branch = "mag == 0" ->
         DegenerateReturn(xs_in, ys_in, zs_in, xs_out, ys_out, zs_out)
    [] s.branch = "sinTheta < sinThetaCutoff" ->
         AlignedReturn(xs_in, ys_in, zs_in, xs_out, ys_out, zs_out)
    [] s.branch = "ZeroDivisionError" -> ZeroDivisionError
    [] OTHER ->
         RotLoop(0, n, xs_in, ys_in, zs_in, <<xs_out, ys_out, zs_out>>,
                 s.cosTheta, s.sinTheta, s.kx, s.ky, s.kz)

\* ------------------------------------------------------------------ state
VARIABLES
  recoilIonsNames,  \* module global: the names of the loaded ions
  trees,            \* module global: one opened trimTree per ion
  energies,         \* module global: one in-memory energy column per ion
  defaultRng,       \* state of the generator made by the default argument
  generator,        \* state of the generator the caller made and passes
  twin,             \* a second run of the same calls from the same seed
  xs, ys, zs, nVacs, \* the caller's track
  call,             \* the last call: arguments, effects and outcome
  threads           \* the calls in progress when callers run concurrently

vars == <<recoilIonsNames, trees, energies, defaultRng, generator, twin,
          xs, ys, zs, nVacs, call, threads>>

\* The notebook's second cell: the names, the opened trees, the energy
\* columns read from them; the default argument's generator is seeded from
\* the operating system, the caller seeds its own.
Init ==
  \E ds \in Datasets, seed \in RngStates, entropy \in RngStates,
     twinEntropy \in RngStates :
    /\ recoilIonsNames = ds.names
    /\ trees = ds.trees
    /\ energies = [k \in 1..Len(ds.trees) |-> KeyColumn(ds.trees[k])]
    /\ defaultRng = entropy
    /\ generator = seed
    /\ twin = [defaultRng |-> twinEntropy, generator |-> seed]
    /\ xs = <<>> /\ ys = <<>> /\ zs = <<>> /\ nVacs = <<>>
    /\ call = [op |-> "none"]
    /\ threads = <<>>

\* xs,ys,zs,nVacs = sampleTrack(energy, ionName[, energyWidth_keV][, rng=generator])
\* The twin run makes the same call on the same data with its own generators.
SampleTrack ==
  \E energy \in 0..MaxEnergy, ionName \in IonNames, energyWidth_keV \in Widths,
     rngGiven \in BOOLEAN, readOk \in BOOLEAN :
    \E r \in {sampleTrack(energy, ionName, energyWidth_keV,
                          UsedRng(rngGiven, generator, defaultRng),
                          readOk, recoilIonsNames, trees, energies)},
       t \in {sampleTrack(energy, ionName, energyWidth_keV,
                          UsedRng(rngGiven, twin.generator, twin.defaultRng),
                          readOk, recoilIonsNames, trees, energies)} :
       /\ (readOk \/ r.reads # <<>>)   \* only a read can fail
       /\ call' = [op |-> "sampleTrack", energy |-> energy, ionName |-> ionName,
                   energyWidth_keV |-> energyWidth_keV, rngGiven |-> rngGiven,
                   rngBefore |-> UsedRng(rngGiven, generator, defaultRng),
                   outcome |-> r.outcome, exc |-> r.exc, value |-> r.value,
                   printed |-> r.printed, reads |-> r.reads,
                   validEnergyIdxs |-> r.validEnergyIdxs, randIdx |-> r.randIdx,
                   twinRandIdx |-> t.randIdx, readOk |-> readOk]
       /\ generator' = IF rngGiven THEN r.rng ELSE generator
       /\ defaultRng' = IF rngGiven THEN defaultRng ELSE r.rng
       /\ twin' = IF rngGiven THEN [twin EXCEPT !.generator = t.rng]
                              ELSE [twin EXCEPT !.defaultRng = t.rng]
       /\ IF r.outcome = "return"
          THEN /\ xs' = r.value[1] /\ ys' = r.value[2]
               /\ zs' = r.value[3] /\ nVacs' = r.value[4]
          ELSE UNCHANGED <<xs, ys, zs, nVacs>>
       /\ UNCHANGED <<recoilIonsNames, trees, energies, threads>>

\* rot_xs,rot_ys,rot_zs = getRotatedCoords(u,v,w,xs,ys,zs) on the caller's
\* track.  The content of the np.empty arrays is arbitrary; it is returned
\* only when the direction is zero, so only then is it enumerated.
Rotate ==
  \E d \in Directions :
    \E xs_out \in IF d = <<0, 0, 0>> THEN EmptyArrays(Len(xs))
                                     ELSE {[i \in 1..Len(xs) |-> 9]},
       ys_out \in IF d = <<0, 0, 0>> THEN EmptyArrays(Len(xs))
                                     ELSE {[i \in 1..Len(xs) |-> 9]},
       zs_out \in IF d = <<0, 0, 0>> THEN EmptyArrays(Len(xs))
                                     ELSE {[i \in 1..Len(xs) |-> 9]} :
      /\ call' = [op |-> "getRotatedCoords", u |-> d[1], v |-> d[2], w |-> d[3],
                  xs |-> xs, ys |-> ys, zs |-> zs,
                  xs_out |-> xs_out, ys_out |-> ys_out, zs_out |-> zs_out,
                  setup |-> RotationSetup(d[1], d[2], d[3]),
                  value |-> getRotatedCoords(d[1], d[2], d[3], xs, ys, zs,
                                             xs_out, ys_out, zs_out)]
      /\ UNCHANGED <<recoilIonsNames, trees, energies, defaultRng, generator,
                     twin, xs, ys, zs, nVacs, threads>>

Next == SampleTrack \/ Rotate

Spec == Init /\ [][Next]_vars

\* The rotation alone, applied once to arrays the caller made itself:
\* nothing is loaded, the coordinate arrays are any three arrays of one
\* length.
Coords == {-1, 0, 1}

InitRotate ==
  \E n \in 0..MaxTrackLen :
    \E x \in [1..n -> Coords], y \in [1..n -> Coords], z \in [1..n -> Coords] :
      /\ recoilIonsNames = <<>>
      /\ trees = <<>>
      /\ energies = <<>>
      /\ defaultRng = 0
      /\ generator = 0
      /\ twin = [defaultRng |-> 0, generator |-> 0]
      /\ xs = x /\ ys = y /\ zs = z /\ nVacs = [i \in 1..n |-> 0]
      /\ call = [op |-> "none"]
      /\ threads = <<>>

NextRotate == call.op = "none" /\ Rotate

SpecRotate == InitRotate /\ [][NextRotate]_vars

\* ------------------------------------------------------ concurrent calls
\* Two callers run one call each at the same time; a step is one statement
\* (or one loop iteration) of one of the calls.
Threads == {1, 2}

\* the result field of a call that has not finished
NoResult == [outcome |-> "none"]

\* the sampleTrack calls a thread may make: with its own generator, seeded
\* by the thread, or with the default one
SampleCalls ==
  { c \in
  { [op |-> "sampleTrack", pc |-> "check", energy |-> MaxEnergy,
     ionName |-> ionName, energyWidth_keV |-> energyWidth_keV,
     rngGiven |-> rngGiven, seed |-> seed, rng |-> seed, ionIdx |-> -1,
     validEnergyIdxs |-> <<>>, randIdx |-> -1, readOk |-> TRUE,
     result |-> NoResult] :
      ionName \in IonNames, energyWidth_keV \in {0, energyWidth_keV_default},
      rngGiven \in BOOLEAN, seed \in RngStates } :
    c.rngGiven \/ c.seed = 0 }

\* the tracks a thread passes to getRotatedCoords: arrays of its own
OwnTracks ==
  { << <<1>>, <<0>>, <<0>> >>, << <<1, 0>>, <<0, 1>>, <<0, -1>> >> }

\* the getRotatedCoords calls a thread may make; g is what np.empty left in
\* the thread's output arrays, which matters for the zero direction only
RotateCalls ==
  { c \in
  { [op |-> "getRotatedCoords", pc |-> "setup", u |-> d[1], v |-> d[2],
     w |-> d[3], xs |-> tr[1], ys |-> tr[2], zs |-> tr[3],
     xs_out |-> [i \in 1..Len(tr[1]) |-> g],
     ys_out |-> [i \in 1..Len(tr[1]) |-> g],
     zs_out |-> [i \in 1..Len(tr[1]) |-> g],
     setup |-> RotationSetup(0, 0, 0), i |-> 0,
     out |-> << [i \in 1..Len(tr[1]) |-> g], [i \in 1..Len(tr[1]) |-> g],
                [i \in 1..Len(tr[1]) |-> g] >>,
     result |-> NoResult] :
      d \in { <<0, 0, 0>>, <<-MaxMag, 0, 0>>, <<0, MaxMag, 0>>, <<0, 0, -MaxMag>> },
      tr \in OwnTracks, g \in Uninitialized } :
    (c.u = 0 /\ c.v = 0 /\ c.w = 0) \/ c.xs_out[1] = 9 }

\* The globals as the second cell leaves them, and one call per thread.
InitConc ==
  \E ds \in Datasets, entropy \in RngStates :
    /\ recoilIonsNames = ds.names
    /\ trees = ds.trees
    /\ energies = [k \in 1..Len(ds.trees) |-> KeyColumn(ds.trees[k])]
    /\ defaultRng = entropy
    /\ generator = 0
    /\ twin = [defaultRng |-> 0, generator |-> 0]
    /\ xs = <<>> /\ ys = <<>> /\ zs = <<>> /\ nVacs = <<>>
    /\ call = [op |-> "none"]
    /\ threads \in [Threads -> SampleCalls \cup RotateCalls]

\* the call of thread t ends with result r
Finish(t, r) ==
  threads' = [threads EXCEPT ![t].pc = "done", ![t].result = r]

\* what a step of a thread leaves alone besides the globals
ThreadFrame == UNCHANGED <<generator, twin, xs, ys, zs, nVacs, call>>

\* lines 103-107 of thread t: the membership check and the index of the ion
SampleCheck(t) ==
  LET c == threads[t] IN
  /\ c.op = "sampleTrack" /\ c.pc = "check"
  /\ IF ~IonKnown(c.ionName, recoilIonsNames)
     THEN Finish(t, SampleResult("return", "", EmptyTrack,
                                 <<c.ionName, " not found in recoilIonNames!">>,
                                 <<>>, <<>>, -1, c.rng))
     ELSE LET ionIdx == ListIndex(recoilIonsNames, c.ionName) IN
          IF ionIdx = -1
          THEN Finish(t, SampleResult("raise", "ValueError", EmptyTrack, <<>>,
                                      <<>>, <<>>, -1, c.rng))
          ELSE threads' = [threads EXCEPT ![t].pc = "where", ![t].ionIdx = ionIdx]
  /\ UNCHANGED <<recoilIonsNames, trees, energies, defaultRng>>
  /\ ThreadFrame

\* lines 110-112 of thread t: the candidates and the empty-selection return
SampleWhere(t) ==
  LET c == threads[t]
      valid == validEnergyIdxs(energies[c.ionIdx + 1], c.energy, c.energyWidth_keV)
  IN
  /\ c.op = "sampleTrack" /\ c.pc = "where"
  /\ IF NoCandidates(valid)
     THEN Finish(t, SampleResult("return", "", EmptyTrack, <<>>, <<>>, valid,
                                 -1, c.rng))
     ELSE threads' = [threads EXCEPT ![t].pc = "choice",
                                     ![t].validEnergyIdxs = valid]
  /\ UNCHANGED <<recoilIonsNames, trees, energies, defaultRng>>
  /\ ThreadFrame

\* line 114 of thread t: one draw from the generator the call uses, which
\* advances that generator (a call of the generator is atomic)
SampleChoice(t) ==
  LET c == threads[t]
      usesDefault == UsedRng(c.rngGiven, "given", "default") = "default"
      state == UsedRng(c.rngGiven, c.rng, defaultRng)
  IN
  /\ c.op = "sampleTrack" /\ c.pc = "choice"
  /\ IF Len(c.validEnergyIdxs) = 0
     THEN /\ Finish(t, SampleResult("raise", "ValueError", EmptyTrack, <<>>,
                                    <<>>, c.validEnergyIdxs, -1, c.rng))
          /\ UNCHANGED defaultRng
     ELSE /\ threads' = [threads EXCEPT
                           ![t].pc = "read",
                           ![t].randIdx = RngChoice(c.validEnergyIdxs, state),
                           ![t].rng = RngNext(state)]
          /\ defaultRng' = IF usesDefault THEN RngNext(state) ELSE defaultRng
  /\ UNCHANGED <<recoilIonsNames, trees, energies>>
  /\ ThreadFrame

\* lines 117-118 of thread t: the read of the drawn entry and the return
SampleRead(t) ==
  LET c == threads[t]
      range == ReadRange(c.randIdx)
      read == [tree |-> c.ionIdx, entry_start |-> range.entry_start,
               entry_stop |-> range.entry_stop]
      track == TreeArrays(trees[c.ionIdx + 1], range.entry_start, range.entry_stop)
  IN
  /\ c.op = "sampleTrack" /\ c.pc = "read"
  /\ \E readOk \in BOOLEAN :
       threads' = [threads EXCEPT
         ![t].pc = "done",
         ![t].readOk = readOk,
         ![t].result =
           IF ~readOk
           THEN ReadFailure(read, c.validEnergyIdxs, c.randIdx, c.rng)
           ELSE IF Len(track.xs_nm) = 0
           THEN SampleResult("raise", "IndexError", EmptyTrack, <<>>, <<read>>,
                             c.validEnergyIdxs, c.randIdx, c.rng)
           ELSE SampleResult("return", "",
                             <<track.xs_nm[1], track.ys_nm[1], track.zs_nm[1],
                               track.nVacs[1]>>,
                             <<>>, <<read>>, c.validEnergyIdxs, c.randIdx, c.rng)]
  /\ UNCHANGED <<recoilIonsNames, trees, energies, defaultRng>>
  /\ ThreadFrame

\* lines 125-150 of thread t: the setup of the rotation and its early returns
RotateSetup(t) ==
  LET c == threads[t]
      s == RotationSetup(c.u, c.v, c.w)
  IN
  /\ c.op = "getRotatedCoords" /\ c.pc = "setup"
  /\ CASE s.branch = "mag == 0" ->
            Finish(t, DegenerateReturn(c.xs, c.ys, c.zs,
                                       c.xs_out, c.ys_out, c.zs_out))
       [] s.branch = "sinTheta < sinThetaCutoff" ->
            Finish(t, AlignedReturn(c.xs, c.ys, c.zs,
                                    c.xs_out, c.ys_out, c.zs_out))
       [] s.branch = "ZeroDivisionError" -> Finish(t, ZeroDivisionError)
       [] OTHER ->
            threads' = [threads EXCEPT ![t].pc = "loop", ![t].setup = s]
  /\ UNCHANGED <<recoilIonsNames, trees, energies, defaultRng>>
  /\ ThreadFrame

\* lines 152-166 of thread t: the iteration i of the loop
RotateLoop(t) ==
  LET c == threads[t] IN
  /\ c.op = "getRotatedCoords" /\ c.pc = "loop" /\ c.i < Len(c.xs)
  /\ threads' = [threads EXCEPT
       ![t].i = c.i + 1,
       ![t].out = RotLoop(c.i, c.i + 1, c.xs, c.ys, c.zs, c.out,
                          c.setup.cosTheta, c.setup.sinTheta,
                          c.setup.kx, c.setup.ky, c.setup.kz)]
  /\ UNCHANGED <<recoilIonsNames, trees, energies, defaultRng>>
  /\ ThreadFrame

\* line 168 of thread t: the return after the loop
RotateReturn(t) ==
  LET c == threads[t] IN
  /\ c.op = "getRotatedCoords" /\ c.pc = "loop" /\ c.i >= Len(c.xs)
  /\ Finish(t, c.out)
  /\ UNCHANGED <<recoilIonsNames, trees, energies, defaultRng>>
  /\ ThreadFrame

NextConc ==
  \E t \in Threads :
    \/ SampleCheck(t)
    \/ SampleWhere(t)
    \/ SampleChoice(t)
    \/ SampleRead(t)
    \/ RotateSetup(t)
    \/ RotateLoop(t)
    \/ RotateReturn(t)

SpecConc == InitConc /\ [][NextConc]_vars

\* ================================================================= claims
\* the call state of a finished sampleTrack
Sampled == call.op = "sampleTrack"

\* the names the notebook loaded
KnownNames == {recoilIonsNames[i] : i \in 1..Len(recoilIonsNames)}

\* the energy column of the ion the last sampleTrack call named (a known one)
CallColumn ==
  energies[CHOOSE k \in 1..Len(recoilIonsNames) :
             /\ recoilIonsNames[k] = call.ionName
             /\ \A j \in 1..(k - 1) : recoilIonsNames[j] # call.ionName]

\* the tree of that ion
CallTree ==
  trees[CHOOSE k \in 1..Len(recoilIonsNames) :
          /\ recoilIonsNames[k] = call.ionName
          /\ \A j \in 1..(k - 1) : recoilIonsNames[j] # call.ionName]

\* C1: whatever the draw, the index sampleTrack chooses is a record whose
\* energy e satisfies energy - width <= e <= energy + width (both inclusive);
\* every index it may draw from is such a record.
C1_DrawnIndexInWindow ==
  (Sampled /\ call.randIdx # -1) =>
    /\ call.randIdx \in 0..(Len(CallColumn) - 1)
    /\ CallColumn[call.randIdx + 1] >= call.energy - call.energyWidth_keV
    /\ CallColumn[call.randIdx + 1] <= call.energy + call.energyWidth_keV
    /\ \A k \in 1..Len(call.validEnergyIdxs) :
         /\ CallColumn[call.validEnergyIdxs[k] + 1] >= call.energy - call.energyWidth_keV
         /\ CallColumn[call.validEnergyIdxs[k] + 1] <= call.energy + call.energyWidth_keV

\* C1 witness: an index was drawn among two candidates while a third record
\* lies outside the window.
C1_Witness ==
  /\ Sampled /\ call.randIdx # -1
  /\ Len(call.validEnergyIdxs) = 2
  /\ Len(CallColumn) = 3
  /\ \E i \in 1..3 : CallColumn[i] > call.energy + call.energyWidth_keV

\* C2: when no record of a loaded ion has its energy in the window, the call
\* returns the four empty sequences as a value and raises nothing.
C2_EmptyWindowReturnsEmpty ==
  (/\ Sampled
   /\ call.ionName \in KnownNames
   /\ \A i \in 1..Len(CallColumn) :
        ~(/\ CallColumn[i] >= call.energy - call.energyWidth_keV
          /\ CallColumn[i] <= call.energy + call.energyWidth_keV))
  => (call.outcome = "return" /\ call.exc = "" /\ call.value = EmptyTrack)

\* C2 witness: a loaded ion with records, none of them in the window.
C2_Witness ==
  /\ Sampled
  /\ call.ionName \in KnownNames
  /\ Len(CallColumn) > 0
  /\ call.energyWidth_keV >= 0
  /\ \A i \in 1..Len(CallColumn) :
       ~(/\ CallColumn[i] >= call.energy - call.energyWidth_keV
         /\ CallColumn[i] <= call.energy + call.energyWidth_keV)
  /\ call.outcome = "return"

\* C3 as stated: a call naming an ion that was never loaded ends in the
\* error UnknownSpeciesError, not in the value of an empty window.
C3_UnknownSpeciesRaises ==
  (Sampled /\ call.ionName \notin KnownNames) =>
    (call.outcome = "raise" /\ call.exc = "UnknownSpeciesError")

\* C3 amended: a call naming an ion that was never loaded raises nothing; it
\* prints "<ionName> not found in recoilIonNames!" and returns the four
\* empty sequences, the value an empty window returns too; the empty window
\* of a loaded ion prints nothing.
C3_UnknownSpeciesPrintsAndReturnsEmpty ==
  /\ (Sampled /\ call.ionName \notin KnownNames) =>
       /\ call.outcome = "return"
       /\ call.value = EmptyTrack
       /\ call.printed = <<call.ionName, " not found in recoilIonNames!">>
  /\ (Sampled /\ call.ionName \in KnownNames /\ call.outcome = "return"
        /\ call.randIdx = -1) =>
       /\ call.value = EmptyTrack
       /\ call.printed = <<>>

\* C3 witness: a call naming an ion that is in no list has finished.
C3_Witness ==
  /\ Sampled /\ call.ionName \notin KnownNames
  /\ Len(recoilIonsNames) > 0
  /\ call.outcome = "return"

\* C9: with a non-empty candidate set the call makes exactly one read, of
\* the entries [i, i+1) of the ion's tree for the index i it drew, and what
\* it returns are the four columns of record i, of one length.
C9_SinglePointRead ==
  (Sampled /\ call.ionName \in KnownNames /\ Len(call.validEnergyIdxs) > 0) =>
    /\ call.randIdx \in {call.validEnergyIdxs[k] : k \in 1..Len(call.validEnergyIdxs)}
    /\ Len(call.reads) = 1
    /\ recoilIonsNames[call.reads[1].tree + 1] = call.ionName
    /\ call.reads[1].entry_start = call.randIdx
    /\ call.reads[1].entry_stop = call.randIdx + 1
    /\ call.outcome = "return" =>
         /\ call.value = << CallTree[call.randIdx + 1].xs_nm,
                            CallTree[call.randIdx + 1].ys_nm,
                            CallTree[call.randIdx + 1].zs_nm,
                            CallTree[call.randIdx + 1].nVacs >>
         /\ <<xs, ys, zs, nVacs>> = call.value
         /\ Len(xs) = Len(ys) /\ Len(ys) = Len(zs) /\ Len(zs) = Len(nVacs)

\* C9 witness: a record other than the first was drawn and returned, with
\* its points.
C9_Witness ==
  /\ Sampled /\ call.outcome = "return"
  /\ call.randIdx > 0
  /\ Len(call.reads) = 1
  /\ Len(xs) > 0

\* C10 as stated: two runs of the same calls on the same data from the same
\* seed draw the same index in every call.
C10_SameSeedSameIndex ==
  Sampled => call.randIdx = call.twinRandIdx

\* C10 amended: in every call that passes its own generator, two runs of the
\* same calls on the same data from the same seed draw the same index and
\* leave the passed generator in the same state, whatever the state of the
\* default argument's generator.
C10_PassedGeneratorReproducible ==
  /\ generator = twin.generator
  /\ (Sampled /\ call.rngGiven) => call.randIdx = call.twinRandIdx

\* C10 witness: a call that passed its generator drew among several
\* candidates while the default generators of the two runs differed.
C10_Witness ==
  /\ Sampled /\ call.rngGiven
  /\ call.randIdx # -1
  /\ Len(call.validEnergyIdxs) >= 2
  /\ defaultRng # twin.defaultRng

\* the call state of a finished getRotatedCoords
Rotated == call.op = "getRotatedCoords"

\* the direction of the last getRotatedCoords call has a magnitude
NonZeroDirection == call.u # 0 \/ call.v # 0 \/ call.w # 0

\* -1, 0 or 1: a component of the unit vector along an axis-aligned vector
Sign(x) == IF x > 0 THEN 1 ELSE IF x < 0 THEN -1 ELSE 0

\* x^2 + y^2 + z^2
NormSq(x, y, z) == x * x + y * y + z * z

\* C4 as stated: the direction (0,0,0) yields three sequences of length 0,
\* whatever the length of the input.
C4_ZeroDirectionReturnsEmpty ==
  (Rotated /\ ~NonZeroDirection) =>
    \A k \in 1..3 : Len(call.value[k]) = 0

\* C5: for a direction with a magnitude the three output sequences have the
\* length of the input, and output point i is what the rotation of input
\* point i alone gives.
C5_LengthAndOrderPreserved ==
  (Rotated /\ NonZeroDirection) =>
    /\ \A k \in 1..3 : Len(call.value[k]) = Len(call.xs)
    /\ \A i \in 1..Len(call.xs) :
         LET alone == getRotatedCoords(call.u, call.v, call.w,
                                       <<call.xs[i]>>, <<call.ys[i]>>, <<call.zs[i]>>,
                                       <<9>>, <<9>>, <<9>>)
         IN <<call.value[1][i], call.value[2][i], call.value[3][i]>>
              = <<alone[1][1], alone[2][1], alone[3][1]>>

\* C5 witness: a rotation off the x-axis moved two different points to two
\* different points.
C5_Witness ==
  /\ Rotated /\ (call.v # 0 \/ call.w # 0)
  /\ Len(call.xs) = 2
  /\ call.xs[1] # call.xs[2]
  /\ Len(call.value[1]) = 2
  /\ call.value[2][1] # call.value[2][2]

C7_CanonicalAxisMapsToDirection ==
  (/\ Rotated /\ NonZeroDirection
   /\ call.xs = <<1>> /\ call.ys = <<0>> /\ call.zs = <<0>>)
  => call.value = << <<Sign(call.u)>>, <<Sign(call.v)>>, <<Sign(call.w)>> >>

\* C8 as stated: for every direction with a magnitude every returned point
\* has the Euclidean norm of its input point.
C8_NormPreserved ==
  (Rotated /\ NonZeroDirection) =>
    \A i \in 1..Len(call.xs) :
      NormSq(call.value[1][i], call.value[2][i], call.value[3][i])
        = NormSq(call.xs[i], call.ys[i], call.zs[i])

\* C16: sampleTrack reads a tree exactly when the ion is loaded and some
\* record is in the window; for an ion that is not loaded, for a window with
\* no record and for every negative width it makes no read, leaves both
\* generators in the state they had and returns four empty sequences.
C16_ReadsOnlyWhenCandidates ==
  [][ Sampled' =>
        LET known == call'.ionName \in KnownNames'
            match == /\ known
                     /\ \E i \in 1..Len(CallColumn') :
                          /\ CallColumn'[i] >= call'.energy - call'.energyWidth_keV
                          /\ CallColumn'[i] <= call'.energy + call'.energyWidth_keV
        IN /\ (Len(call'.reads) > 0) <=> match
           /\ ((~match) \/ call'.energyWidth_keV < 0) =>
                /\ call'.reads = <<>>
                /\ generator' = generator
                /\ defaultRng' = defaultRng
                /\ call'.randIdx = -1
                /\ call'.outcome = "return"
                /\ call'.value = EmptyTrack ]_vars

\* C16 witness: a negative width on a loaded ion with records made no read
\* and returned the four empty sequences.
C16_Witness ==
  /\ Sampled
  /\ call.energyWidth_keV < 0
  /\ call.ionName \in KnownNames
  /\ Len(CallColumn) > 0
  /\ call.reads = <<>>
  /\ call.value = EmptyTrack

\* a later call with the given arguments gives the same result in the state
\* after the step as in the state before it
LaterCallSame(energy, ionName, energyWidth_keV, rngGiven, readOk) ==
  sampleTrack(energy, ionName, energyWidth_keV,
              UsedRng(rngGiven, generator', defaultRng'), readOk,
              recoilIonsNames', trees', energies')
    = sampleTrack(energy, ionName, energyWidth_keV,
                  UsedRng(rngGiven, generator, defaultRng), readOk,
                  recoilIonsNames, trees, energies)

\* the later calls compared: every ion name with the default width, which
\* makes every record of the ion a candidate, drawing from the passed
\* generator (rngGiven) or from the default one
LaterCallsSame(rngGiven) ==
  \A ionName \in IonNames, energy \in {0, MaxEnergy} :
    LaterCallSame(energy, ionName, energyWidth_keV_default, rngGiven, TRUE)

\* a step in which sampleTrack made its read and the read failed
FailedReadStep == Sampled' /\ ~call'.readOk

\* C12 as stated: a failed read is raised by the same call after one read
\* and one draw, the key column, the trees and the names are unchanged, and
\* every later call behaves as if the failed call had not happened.
C12_FailedReadLeavesNoTrace ==
  [][ FailedReadStep =>
        /\ call'.outcome = "raise" /\ call'.exc = "StorageError"
        /\ Len(call'.reads) = 1
        /\ UNCHANGED <<recoilIonsNames, trees, energies>>
        /\ LaterCallsSame(TRUE) /\ LaterCallsSame(FALSE) ]_vars

\* C12 amended: a failed read is raised by the same call after one read and
\* one draw; the key column, the trees, the names and the caller's track are
\* unchanged; the generator the call drew from has advanced by that one
\* draw and the other generator has not moved, so every later call that
\* draws from the other generator behaves as if the failed call had not
\* happened.
C12_FailedReadKeepsDataAdvancesGenerator ==
  [][ FailedReadStep =>
        /\ call'.outcome = "raise" /\ call'.exc = "StorageError"
        /\ Len(call'.reads) = 1
        /\ UNCHANGED <<recoilIonsNames, trees, energies, xs, ys, zs, nVacs>>
        /\ IF call'.rngGiven
           THEN generator' = RngNext(generator) /\ defaultRng' = defaultRng
           ELSE defaultRng' = RngNext(defaultRng) /\ generator' = generator
        /\ LaterCallsSame(~call'.rngGiven) ]_vars

\* C12 witness: a call that drew among several candidates ended in the
\* error of its read.
C12_Witness ==
  /\ Sampled /\ ~call.readOk
  /\ call.exc = "StorageError"
  /\ Len(call.validEnergyIdxs) >= 2
  /\ Len(call.reads) = 1

\* ------------------------------------------------------------------- C13
\* the last call was a rotation whose execution passed both early returns
PassedGuard ==
  /\ Rotated
  /\ call.setup.branch \notin {"mag == 0", "sinTheta < sinThetaCutoff"}

C13_WitnessAntiParallel ==
  /\ Rotated /\ call.u < 0 /\ call.v = 0 /\ call.w = 0
  /\ call.setup.branch = "sinTheta < sinThetaCutoff"
\* ------------------------------------------------------------------- C14
\* the Rodrigues formula p*cosTheta + (k x p)*sinTheta + k*(k.p)*(1-cosTheta)
\* for the point p = (px, py, pz) and the unit axis k = (kx, ky, kz)
Rodrigues(px, py, pz, cosTheta, sinTheta, kx, ky, kz) ==
  LET kdotp == kx * px + ky * py + kz * pz
      kxp_x == ky * pz - kz * py
      kxp_y == kz * px - kx * pz
      kxp_z == kx * py - ky * px
  IN << px * cosTheta + kxp_x * sinTheta + kx * kdotp * (1 - cosTheta),
        py * cosTheta + kxp_y * sinTheta + ky * kdotp * (1 - cosTheta),
        pz * cosTheta + kxp_z * sinTheta + kz * kdotp * (1 - cosTheta) >>

\* C14 as stated: for every direction that passes both guards, each returned
\* point equals the Rodrigues formula of its input point with the unit axis
\* k obtained by normalizing (0, w, -v), in all three components.
C14_OutputsEqualRodrigues ==
  (Rotated /\ call.setup.branch = "loop") =>
    \A i \in 1..Len(call.xs) :
      <<call.value[1][i], call.value[2][i], call.value[3][i]>>
        = Rodrigues(call.xs[i], call.ys[i], call.zs[i],
                    call.setup.cosTheta, call.setup.sinTheta,
                    call.setup.kx, call.setup.ky, call.setup.kz)

\* the x component alone: the returned x includes the x component of the
\* cross-product term
C14_XComponentHasCrossTerm ==
  (Rotated /\ call.setup.branch = "loop") =>
    \A i \in 1..Len(call.xs) :
      call.value[1][i]
        = Rodrigues(call.xs[i], call.ys[i], call.zs[i],
                    call.setup.cosTheta, call.setup.sinTheta,
                    call.setup.kx, call.setup.ky, call.setup.kz)[1]
\* ------------------------------------------------------------------- C15
\* no call changes the species list, the stored records or the key columns,
\* and a rotation leaves the caller's input sequences as they were
StoredDataUnchanged ==
  /\ UNCHANGED <<recoilIonsNames, trees, energies>>
  /\ Rotated' =>
       /\ UNCHANGED <<xs, ys, zs, nVacs>>
       /\ call'.xs = xs /\ call'.ys = ys /\ call'.zs = zs

\* two consecutive getRotatedCoords calls with the same arguments
SameRotationTwice ==
  /\ Rotated /\ Rotated'
  /\ call'.u = call.u /\ call'.v = call.v /\ call'.w = call.w
  /\ call'.xs = call.xs /\ call'.ys = call.ys /\ call'.zs = call.zs

\* C15 as stated: after any sequence of sampleTrack and getRotatedCoords
\* calls the key columns, the species list, the stored records and the
\* caller's input sequences are unchanged, and two getRotatedCoords calls
\* with the same arguments give the same result.
C15_ReadOnlyAndRepeatable ==
  [][ /\ StoredDataUnchanged
      /\ SameRotationTwice => call'.value = call.value ]_vars

\* the frame part of C15 alone
C15_StoredDataUnchanged == [][StoredDataUnchanged]_vars

\* the repeatability part of C15 for the directions that have a magnitude
C15_RepeatableWhenNonZero ==
  [][ (SameRotationTwice /\ NonZeroDirection) => call'.value = call.value ]_vars
\* ------------------------------------------------------------------- C11
\* the call of thread t has its own random source and its own arrays
OwnSource(c) == c.op = "getRotatedCoords" \/ c.rngGiven

\* what the call of thread t returns when it runs alone
Alone(c) ==
  IF c.op = "sampleTrack"
  THEN sampleTrack(c.energy, c.ionName, c.energyWidth_keV, c.seed, c.readOk,
                   recoilIonsNames, trees, energies)
  ELSE getRotatedCoords(c.u, c.v, c.w, c.xs, c.ys, c.zs,
                        c.xs_out, c.ys_out, c.zs_out)

\* a step of thread t alone: the other thread's call is as it was and the
\* arguments of the call of t are as they were
StepOf(t) ==
  /\ \A o \in Threads \ {t} : threads'[o] = threads[o]
  /\ threads'[t].op = threads[t].op
  /\ threads[t].op = "getRotatedCoords" =>
       /\ threads'[t].xs = threads[t].xs
       /\ threads'[t].ys = threads[t].ys
       /\ threads'[t].zs = threads[t].zs

\* C11: in every interleaving of concurrent sampleTrack and getRotatedCoords
\* calls, a call with its own generator and its own arrays returns what it
\* returns when run alone, and no step of such a call changes state another
\* call reads: the names, the trees, the key columns, the default generator
\* and the other thread's call are left as they were.
C11_CallsIndependent ==
  /\ [](\A t \in Threads :
          (threads[t].pc = "done" /\ OwnSource(threads[t]))
            => threads[t].result = Alone(threads[t]))
  /\ [][ /\ UNCHANGED <<recoilIonsNames, trees, energies>>
         /\ \E t \in Threads :
              /\ StepOf(t)
              /\ OwnSource(threads[t]) => defaultRng' = defaultRng ]_vars

\* two sampleTrack calls with their own generators were both between their
\* draw and their read, and one has finished while the other has not
C11_Witness ==
  /\ threads[1].op = "sampleTrack" /\ threads[1].rngGiven
  /\ threads[2].op = "sampleTrack" /\ threads[2].rngGiven
  /\ threads[1].ionName = threads[2].ionName
  /\ Len(threads[1].validEnergyIdxs) >= 2
  /\ threads[1].pc = "done" /\ threads[1].result.outcome = "return"
  /\ threads[2].pc = "read"

\* a getRotatedCoords call finished its loop while a sampleTrack call with
\* its own generator had drawn and not yet read
C11_WitnessMixed ==
  /\ threads[1].op = "getRotatedCoords" /\ threads[1].pc = "done"
  /\ threads[1].setup.branch = "loop" /\ threads[1].i = 2
  /\ threads[2].op = "sampleTrack" /\ threads[2].rngGiven
  /\ threads[2].pc = "read"
====
